---- MODULE Spec2Model ----
(***************************************************************************)
(* Time Police (src/app.py): the audit pipeline of run_audit.              *)
(*                                                                         *)
(* The provider (ClickUp) is the environment: it holds one response for    *)
(* the team-members request and one response per user for the time-entries *)
(* request.  run_audit asks for the members, fans out one time-entries      *)
(* request per member (asyncio.gather), waits for all of them, and builds  *)
(* the report: classification, counting, grouping by task, two sorts.      *)
(***************************************************************************)
EXTENDS Integers, Sequences, FiniteSets

(***************************************************************************)
(* JSON values.  A key of a JSON object is absent, null, or has a value.   *)
(***************************************************************************)
Absent == [kind |-> "absent"]
Null == [kind |-> "null"]
Str(s) == [kind |-> "str", v |-> s]
Num(n) == [kind |-> "num", v |-> n]
UserObj(username, email) == [kind |-> "obj", username |-> username, email |-> email]
TaskObj(name, id) == [kind |-> "obj", name |-> name, id |-> id]
RawEntry(user, task, duration) == [user |-> user, task |-> task, duration |-> duration]

\* Python None, as a value of a local variable.
None == [kind |-> "null"]

\* dict.get(key, default): the default only when the key is absent; a key
\* that is present with the value null yields None.
Get(obj, key, default) == IF obj[key].kind = "absent" THEN default ELSE obj[key]

(***************************************************************************)
(* Configuration                                                           *)
(***************************************************************************)
SHORT_TASK_THRESHOLD_MINUTES == 5

(***************************************************************************)
(* Utility functions                                                       *)
(***************************************************************************)
\* '1h 30m 45s' as the sequence of its parts, each part <<number, unit>>.
ms_to_duration_str(duration_ms) ==
    LET total_seconds == duration_ms \div 1000
        hours == total_seconds \div 3600
        minutes == (total_seconds % 3600) \div 60
        seconds == total_seconds % 60
    IN  (IF hours > 0 THEN << <<hours, "h">> >> ELSE << >>)
        \o (IF minutes > 0 THEN << <<minutes, "m">> >> ELSE << >>)
        \o << <<seconds, "s">> >>

(***************************************************************************)
(* Fraud detection functions.  A verdict string is the sequence of its     *)
(* words; `"FRAUD" in verdict` is membership of the word.                  *)
(***************************************************************************)
FRAUD_LABEL == <<"SIREN", "FRAUD", "(0s", "Signature)">>
POTENTIAL_LABEL == <<"WARNING", "POTENTIAL", "FRAUD", "(Short", "Duration)">>
CLEAN_LABEL == <<"CHECK", "CLEAN">>

check_zero_seconds_trap(duration_ms) ==
    LET total_seconds == duration_ms \div 1000
        seconds == total_seconds % 60
    IN  seconds = 0 /\ duration_ms > 0

\* Variant: the threshold taken in seconds instead of minutes.
check_short_task_units(duration_ms) ==
    duration_ms < SHORT_TASK_THRESHOLD_MINUTES * 1000

\* duration_ms / 60000 < 5, a float comparison of integers far below 2^53.
check_short_task(duration_ms) ==
    duration_ms < SHORT_TASK_THRESHOLD_MINUTES * 60000

\* " | ".join(verdicts)
Join(verdicts) ==
    IF Len(verdicts) = 0 THEN << >>
    ELSE IF Len(verdicts) = 1 THEN verdicts[1]
    ELSE verdicts[1] \o <<"|">> \o verdicts[2]

get_verdict(duration_ms) ==
    LET verdicts ==
            (IF check_zero_seconds_trap(duration_ms) THEN <<FRAUD_LABEL>> ELSE << >>)
            \o (IF check_short_task(duration_ms) THEN <<POTENTIAL_LABEL>> ELSE << >>)
    IN  IF Len(verdicts) > 0 THEN Join(verdicts) ELSE CLEAN_LABEL

\* word in verdict
In(word, verdict) == \E i \in 1..Len(verdict) : verdict[i] = word

(***************************************************************************)
(* Provider responses.  A request ends in a transport error, a timeout, a  *)
(* non-2xx status, a body that is no JSON, or a JSON body.                 *)
(***************************************************************************)
FailureKinds == {"network_error", "timeout", "http_error", "invalid_json"}
Failure(kind) == [kind |-> kind]
Ok(body) == [kind |-> "ok", body |-> body]
JsonArray == [kind |-> "array"]
JsonList(v) == [kind |-> "list", v |-> v]
TeamBody(team) == [kind |-> "obj", team |-> team]
Team(members) == [kind |-> "obj", members |-> members]
Member(id) == [user |-> [kind |-> "obj", id |-> Num(id),
                         username |-> Str("user"), email |-> Str("user@example.com")]]
EntriesBody(data) == [kind |-> "obj", data |-> data]

\* str(n) for n >= 0, as the sequence of its decimal digits.
RECURSIVE str(_)
str(n) == IF n < 10 THEN <<n>> ELSE str(n \div 10) \o <<n % 10>>

(***************************************************************************)
(* API functions                                                           *)
(***************************************************************************)
\* The whole body is inside try/except Exception: every failure, and every
\* shape on which .get or the iteration raises, yields [].
get_all_users(response) ==
    IF response.kind # "ok" THEN << >>
    ELSE LET data == response.body IN
         IF data.kind # "obj" THEN << >>
         ELSE LET team == Get(data, "team", Team(Absent)) IN
              IF team.kind # "obj" THEN << >>
              ELSE LET members == Get(team, "members", JsonList(<< >>)) IN
                   IF members.kind # "list" THEN << >>
                   ELSE [i \in 1..Len(members.v) |->
                            LET user == members.v[i].user IN
                            [id |-> str(user.id.v),
                             username |-> Get(user, "username", Str("Unknown")),
                             email |-> Get(user, "email", Str(""))]]

\* try: get, raise_for_status, json, data.get("data", []); except: [].
\* Nothing iterates over the value of "data" inside the try, so a value that
\* is no list is returned as it is.
get_time_entries_for_user(response) ==
    IF response.kind # "ok" THEN JsonList(<< >>)
    ELSE LET data == response.body IN
         IF data.kind # "obj" THEN JsonList(<< >>)
         ELSE Get(data, "data", JsonList(<< >>))

Pending == [kind |-> "pending"]

\* Variant: results collected in the order in which the fetches return.
gather_store_completion_order(results, i, value) ==
    LET first == CHOOSE j \in DOMAIN results :
                    /\ results[j] = Pending
                    /\ \A k \in DOMAIN results : results[k] = Pending => j <= k
    IN  [results EXCEPT ![first] = value]

\* asyncio.gather keeps one result slot per awaitable, in argument order.
gather_store(results, i, value) == [results EXCEPT ![i] = value]

\* all_entries.extend(entries) raises TypeError when entries is None.
extend_raises(results) == \E i \in DOMAIN results : results[i].kind # "list"

RECURSIVE extend_all(_, _)
extend_all(results, i) ==
    IF i > Len(results) THEN << >>
    ELSE results[i].v \o extend_all(results, i + 1)

(***************************************************************************)
(* run_audit, step 3: the loop over the fetched entries.                   *)
(***************************************************************************)
\* bool(x) of a value that is None or a dict.
Truthy(x) ==
    /\ x.kind = "obj"
    /\ \E key \in DOMAIN x \ {"kind"} : x[key].kind # "absent"

EmptyDict == TaskObj(Absent, Absent)

entry_user(entry) == Get(entry, "user", UserObj(Absent, Absent))

\* task = entry.get("task") or {}
entry_task(entry) ==
    LET task == Get(entry, "task", None)
    IN  IF Truthy(task) THEN task ELSE EmptyDict

\* int(x): a number is itself, a string of decimal digits is parsed.
RECURSIVE int_of_digits(_)
int_of_digits(digits) ==
    IF Len(digits) = 0 THEN 0
    ELSE 10 * int_of_digits(SubSeq(digits, 1, Len(digits) - 1)) + digits[Len(digits)]

int(x) == IF x.kind = "num" THEN x.v ELSE int_of_digits(x.v)

\* What raises inside the loop body: user.get on None (AttributeError) and
\* int(None) (TypeError).
entry_raises(entry) ==
    \/ entry_user(entry).kind = "null"
    \/ Get(entry, "duration", Num(0)).kind = "null"

\* The loop body's locals for an entry on which nothing raises.
process_entry(entry) ==
    LET user == entry_user(entry)
        user_name == Get(user, "username", Str("Unknown User"))
        user_email == Get(user, "email", Str(""))
        task == entry_task(entry)
        task_name == IF Truthy(task) THEN Get(task, "name", Str("No Task")) ELSE Str("No Task")
        task_id == IF Truthy(task) THEN Get(task, "id", Str("N/A")) ELSE Str("N/A")
        duration_ms == int(Get(entry, "duration", Num(0)))
    IN  [task_key |-> <<task_name, task_id>>,
         e |-> [user |-> user_name,
                email |-> user_email,
                duration |-> ms_to_duration_str(duration_ms),
                duration_ms |-> duration_ms,
                verdict |-> get_verdict(duration_ms)]]

is_fraud(verdict) == In("FRAUD", verdict) /\ ~In("POTENTIAL", verdict)
is_potential(verdict) == In("POTENTIAL", verdict)

\* Variant: the second test an `if` of its own instead of `elif`.
count_verdict_independent_ifs(counts, verdict) ==
    LET c1 == IF is_fraud(verdict)
              THEN [counts EXCEPT !.fraud = @ + 1] ELSE counts
    IN  IF is_potential(verdict) THEN [c1 EXCEPT !.potential = @ + 1]
        ELSE [c1 EXCEPT !.clean = @ + 1]

\* if / elif / else over the verdict string
count_verdict(counts, verdict) ==
    IF is_fraud(verdict) THEN [counts EXCEPT !.fraud = @ + 1]
    ELSE IF is_potential(verdict) THEN [counts EXCEPT !.potential = @ + 1]
    ELSE [counts EXCEPT !.clean = @ + 1]

\* tasks_data[task_key].append(e) on a dict, which keeps insertion order:
\* the items are a sequence, a new key goes to the end.
tasks_data_append(tasks_data, task_key, e) ==
    IF \E i \in 1..Len(tasks_data) : tasks_data[i].task_key = task_key
    THEN [i \in 1..Len(tasks_data) |->
             IF tasks_data[i].task_key = task_key
             THEN [tasks_data[i] EXCEPT !.entries = Append(@, e)]
             ELSE tasks_data[i]]
    ELSE Append(tasks_data, [task_key |-> task_key, entries |-> <<e>>])

RECURSIVE process_entries(_, _, _)
process_entries(entries, i, acc) ==
    IF i > Len(entries) THEN acc
    ELSE LET p == process_entry(entries[i])
         IN  process_entries(entries, i + 1,
                 [tasks_data |-> tasks_data_append(acc.tasks_data, p.task_key, p.e),
                  counts |-> count_verdict(acc.counts, p.e.verdict)])

(***************************************************************************)
(* run_audit, step 4: status, sorting, response.                           *)
(***************************************************************************)
\* Variant: has_potential tested before has_fraud.
get_task_status_potential_first(entries) ==
    LET has_fraud == \E i \in 1..Len(entries) : is_fraud(entries[i].verdict)
        has_potential == \E i \in 1..Len(entries) : is_potential(entries[i].verdict)
    IN  IF has_potential THEN "potential"
        ELSE IF has_fraud THEN "fraud"
        ELSE "clean"

get_task_status(entries) ==
    LET has_fraud == \E i \in 1..Len(entries) : is_fraud(entries[i].verdict)
        has_potential == \E i \in 1..Len(entries) : is_potential(entries[i].verdict)
    IN  IF has_fraud THEN "fraud"
        ELSE IF has_potential THEN "potential"
        ELSE "clean"

\* sorted(xs, key=...) is stable.  sorted_indices(keys) is the order in which
\* sorted takes the elements: each index is inserted behind every index
\* already placed whose key is not greater.
RECURSIVE insert_index(_, _, _)
insert_index(order, keys, i) ==
    IF Len(order) = 0 THEN <<i>>
    ELSE IF keys[order[Len(order)]] <= keys[i] THEN Append(order, i)
    ELSE Append(insert_index(SubSeq(order, 1, Len(order) - 1), keys, i), order[Len(order)])

RECURSIVE sorted_indices_from(_, _, _)
sorted_indices_from(keys, i, order) ==
    IF i > Len(keys) THEN order
    ELSE sorted_indices_from(keys, i + 1, insert_index(order, keys, i))

sorted_indices(keys) == sorted_indices_from(keys, 1, << >>)

task_sort_key(entries) ==
    IF get_task_status(entries) = "fraud" THEN 0
    ELSE IF get_task_status(entries) = "potential" THEN 1 ELSE 2

entry_sort_key(x) ==
    IF is_fraud(x.verdict) THEN 0 ELSE IF is_potential(x.verdict) THEN 1 ELSE 2

\* Variant: a key that tells fraud from the rest only.
sort_tasks_fraud_only(tasks_data) ==
    LET order == sorted_indices([i \in 1..Len(tasks_data) |->
                                    IF get_task_status(tasks_data[i].entries) = "fraud"
                                    THEN 0 ELSE 1])
    IN  [i \in 1..Len(tasks_data) |-> tasks_data[order[i]]]

\* sorted_tasks = sorted(tasks_data.items(), key=status tier)
sort_tasks(tasks_data) ==
    LET order == sorted_indices([i \in 1..Len(tasks_data) |->
                                    task_sort_key(tasks_data[i].entries)])
    IN  [i \in 1..Len(tasks_data) |-> tasks_data[order[i]]]

\* Variant: a key that tells FRAUD from the rest only.
sort_entries_fraud_only(entries) ==
    LET order == sorted_indices([i \in 1..Len(entries) |->
                                    IF is_fraud(entries[i].verdict) THEN 0 ELSE 1])
    IN  [i \in 1..Len(entries) |-> entries[order[i]]]

\* sorted(entries, key=severity tier)
sort_entries(entries) ==
    LET order == sorted_indices([i \in 1..Len(entries) |-> entry_sort_key(entries[i])])
    IN  [i \in 1..Len(entries) |-> entries[order[i]]]

\* TimeEntry(**e) and TaskGroup(...) are pydantic models with str fields:
\* None for one of them is a ValidationError.
validation_fails(tasks_data) ==
    \E i \in 1..Len(tasks_data) :
        \/ tasks_data[i].task_key[1].kind # "str"
        \/ tasks_data[i].task_key[2].kind # "str"
        \/ \E j \in 1..Len(tasks_data[i].entries) :
              \/ tasks_data[i].entries[j].user.kind # "str"
              \/ tasks_data[i].entries[j].email.kind # "str"

TimeEntry(e) ==
    [user |-> e.user.v, email |-> e.email.v, duration |-> e.duration,
     duration_ms |-> e.duration_ms, verdict |-> e.verdict]

TaskGroup(item) ==
    [task_name |-> item.task_key[1].v,
     task_id |-> item.task_key[2].v,
     status |-> get_task_status(item.entries),
     entries |-> LET sorted == sort_entries(item.entries)
                 IN  [j \in 1..Len(sorted) |-> TimeEntry(sorted[j])]]

HTTPException(status_code, detail) == [status |-> status_code, detail |-> detail]

\* An exception that leaves the handler is answered by the framework.
InternalServerError == [status |-> 500, detail |-> "Internal Server Error"]

ZeroCounts == [fraud |-> 0, potential |-> 0, clean |-> 0]

\* Steps 3 and 4 of run_audit on the fetched entries.
build_response(entries) ==
    IF \E i \in 1..Len(entries) : entry_raises(entries[i]) THEN InternalServerError
    ELSE LET acc == process_entries(entries, 1, [tasks_data |-> << >>, counts |-> ZeroCounts])
         IN  IF validation_fails(acc.tasks_data) THEN InternalServerError
             ELSE LET sorted_tasks == sort_tasks(acc.tasks_data)
                  IN  [status |-> 200,
                       success |-> TRUE,
                       summary |-> [total |-> Len(entries),
                                    fraud |-> acc.counts.fraud,
                                    potential |-> acc.counts.potential,
                                    clean |-> acc.counts.clean],
                       tasks |-> [i \in 1..Len(sorted_tasks) |-> TaskGroup(sorted_tasks[i])]]

(***************************************************************************)
(* The provider's data: what it answers to the team request and to the     *)
(* time-entries request of each member.                                    *)
(***************************************************************************)
MaxUsers == 2
MaxEntriesPerUser == 1
MaxGroupedEntries == 3
MaxSeconds == 660

UserNames == <<"alice", "bob", "carol", "dave", "erin", "frank">>
UserId(i) == 100 + i
EntryUser(i) == UserObj(Str(UserNames[i]), Str("team@example.com"))

\* Sequences over S of length at most n.
SeqUpTo(S, n) == UNION {[1..k -> S] : k \in 0..n}

TeamOf(n) == Ok(TeamBody(Team(JsonList([i \in 1..n |-> Member(UserId(i))]))))

TeamResponses ==
    {Failure(kind) : kind \in FailureKinds}
    \cup {Ok(JsonArray), Ok(TeamBody(Absent)), Ok(TeamBody(Null)),
          Ok(TeamBody(Team(Absent))), Ok(TeamBody(Team(Null)))}
    \cup {TeamOf(n) : n \in 0..MaxUsers}

\* The responses to one member's time-entries request whose entries are
\* drawn from Pool, at most n of them.
EntryResponses(Pool, n) ==
    {Failure(kind) : kind \in FailureKinds}
    \cup {Ok(JsonArray), Ok(EntriesBody(Absent)), Ok(EntriesBody(Null))}
    \cup {Ok(EntriesBody(JsonList(es))) : es \in SeqUpTo(Pool, n)}

OnlyUser == str(UserId(1))
SingleUser(entries) ==
    [team |-> TeamOf(1), entries |-> [u \in {OnlyUser} |-> Ok(EntriesBody(JsonList(entries)))]]

T1 == TaskObj(Str("Design"), Str("86a1"))
T2 == TaskObj(Str("Review"), Str("86a2"))

\* Several members, each request failing or answering on its own.
FanOutPool(i) == {RawEntry(EntryUser(i), T1, Num(d)) : d \in {600000, 45000}}
FanOutProviders ==
    UNION {
        {[team |-> t, entries |-> e] :
            e \in {f \in [{get_all_users(t)[i].id : i \in 1..Len(get_all_users(t))}
                          -> UNION {EntryResponses(FanOutPool(i), MaxEntriesPerUser) :
                                       i \in 1..MaxUsers}] :
                      \A i \in 1..Len(get_all_users(t)) :
                          f[get_all_users(t)[i].id]
                              \in EntryResponses(FanOutPool(i), MaxEntriesPerUser)}}
        : t \in TeamResponses}

\* One member whose entries spread over tasks and severities.
GroupingPool ==
    {RawEntry(EntryUser(1), t, Num(d)) : t \in {T1, T2, Absent}, d \in {600000, 120000, 301000}}
GroupingProviders == {SingleUser(es) : es \in SeqUpTo(GroupingPool, MaxGroupedEntries)}

\* One member, one task, entries of every severity.
OneTaskPool ==
    {RawEntry(EntryUser(1), T1, Num(d)) : d \in {600000, 120000, 3600000, 45000, 301000}}
OneTaskProviders == {SingleUser(es) : es \in SeqUpTo(OneTaskPool, MaxGroupedEntries)}

\* One member, one entry, the durations of every second up to MaxSeconds.
Durations == {s * 1000 + r : s \in 0..MaxSeconds, r \in {0, 999}}
DurationProviders == {SingleUser(<<RawEntry(EntryUser(1), T1, Num(d))>>) : d \in Durations}

\* One member, an entry with missing parts next to a complete one.  The
\* provider sends a duration as a string of digits.
Complete == RawEntry(EntryUser(2), T2, Num(301000))
DefectivePool ==
    {RawEntry(user, task, duration) :
        user \in {Absent, Null, UserObj(Absent, Absent), UserObj(Null, Str("a@example.com")),
                  UserObj(Str("alice"), Null), UserObj(Str("alice"), Absent),
                  UserObj(Str("alice"), Str("a@example.com"))},
        task \in {Absent, Null, TaskObj(Absent, Absent), TaskObj(Null, Str("86a1")),
                  TaskObj(Str("Design"), Null), TaskObj(Absent, Str("86a1")),
                  TaskObj(Str("Design"), Absent), T1},
        duration \in {Absent, Null, Str(<<4, 5, 0, 0, 0>>)}}
DefectiveProviders ==
    UNION {{SingleUser(<<m>>), SingleUser(<<Complete, m>>), SingleUser(<<m, Complete>>)} :
              m \in DefectivePool}

Providers ==
    FanOutProviders \cup GroupingProviders \cup OneTaskProviders
    \cup DurationProviders \cup DefectiveProviders

(***************************************************************************)
(* State                                                                   *)
(***************************************************************************)
VARIABLES
    provider,   \* the provider's data, fixed during the audit
    pc,         \* where run_audit is: "start", "await_users", "await_entries", "done"
    requests,   \* the requests sent to the provider, in order
    users,      \* run_audit's users
    running,    \* the indices of the per-user fetches that have not returned
    results,    \* gather's result slots, one per user, in user order
    entries,    \* run_audit's entries
    response    \* what the caller of run_audit gets

vars == <<provider, pc, requests, users, running, results, entries, response>>

NoResponse == [status |-> 0]

Init ==
    /\ provider \in Providers
    /\ pc = "start"
    /\ requests = << >>
    /\ users = << >>
    /\ running = {}
    /\ results = << >>
    /\ entries = << >>
    /\ response = NoResponse

(***************************************************************************)
(* run_audit                                                               *)
(***************************************************************************)
\* Up to the first await: the team request goes out.
run_audit_start ==
    /\ pc = "start"
    /\ requests' = Append(requests, [op |-> "team"])
    /\ pc' = "await_users"
    /\ UNCHANGED <<provider, users, running, results, entries, response>>

\* Variant: `users is None`, which [] is not.
not_users_is_none(us) == FALSE

\* `not users`
not_users(us) == Len(us) = 0

\* get_all_users returns.  No users: HTTPException(500).  Otherwise
\* get_all_time_entries creates one fetch per user id and gather starts them.
get_all_users_returns ==
    /\ pc = "await_users"
    /\ LET us == get_all_users(provider.team)
       IN  IF not_users(us)
           THEN /\ response' = HTTPException(500, "Failed to fetch users")
                /\ pc' = "done"
                /\ users' = us
                /\ UNCHANGED <<requests, running, results>>
           ELSE /\ users' = us
                /\ requests' = requests \o [i \in 1..Len(us) |->
                                   [op |-> "time_entries", assignee |-> us[i].id]]
                /\ running' = 1..Len(us)
                /\ results' = [i \in 1..Len(us) |-> Pending]
                /\ pc' = "await_entries"
                /\ UNCHANGED response
    /\ UNCHANGED <<provider, entries>>

\* The fetch of user i returns, in any order among the fetches.
fetch_returns(i) ==
    /\ pc = "await_entries"
    /\ i \in running
    /\ running' = running \ {i}
    /\ results' = gather_store(results, i,
                      get_time_entries_for_user(provider.entries[users[i].id]))
    /\ UNCHANGED <<provider, pc, requests, users, entries, response>>

\* gather returns once every fetch has; the rest of run_audit runs without
\* suspending.
gather_returns ==
    /\ pc = "await_entries"
    /\ running = {}
    /\ IF extend_raises(results)
       THEN /\ response' = InternalServerError
            /\ UNCHANGED entries
       ELSE /\ entries' = extend_all(results, 1)
            /\ response' = build_response(extend_all(results, 1))
    /\ pc' = "done"
    /\ UNCHANGED <<provider, requests, users, running, results>>

Next ==
    \/ run_audit_start
    \/ get_all_users_returns
    \/ \E i \in 1..Len(users) : fetch_returns(i)
    \/ gather_returns

Spec == Init /\ [][Next]_vars

(***************************************************************************)
(* Properties                                                              *)
(***************************************************************************)
Reported == pc = "done" /\ response.status = 200

\* The severity under which the summary counts a verdict.
Severity(verdict) ==
    IF is_fraud(verdict) THEN "FRAUD"
    ELSE IF is_potential(verdict) THEN "POTENTIAL_FRAUD"
    ELSE "CLEAN"

Tier(severity) ==
    IF severity \in {"FRAUD", "fraud"} THEN 0
    ELSE IF severity \in {"POTENTIAL_FRAUD", "potential"} THEN 1
    ELSE 2

ZeroSecondsCondition(d) == d > 0 /\ (d \div 1000) % 60 = 0

Count(seq, x) == Cardinality({i \in DOMAIN seq : seq[i] = x})

RECURSIVE Flatten(_)
Flatten(seqs) == IF Len(seqs) = 0 THEN << >> ELSE Head(seqs) \o Flatten(Tail(seqs))

Map(seq, Op(_)) == [i \in 1..Len(seq) |-> Op(seq[i])]

\* The fetched entries as report rows, in fetched order (no defect aborts
\* the run in a state where this is used).
FetchedRow(raw) ==
    LET p == process_entry(raw)
    IN  [task_name |-> p.task_key[1].v, task_id |-> p.task_key[2].v, e |-> TimeEntry(p.e)]
FetchedRows == Map(entries, FetchedRow)

GroupRows(g) ==
    [j \in 1..Len(g.entries) |->
        [task_name |-> g.task_name, task_id |-> g.task_id, e |-> g.entries[j]]]
ReportRows == Flatten(Map(response.tasks, GroupRows))

\* The fetched entries of a group, in fetched order.
FetchedOf(g) ==
    LET Mine(r) == r.task_name = g.task_name /\ r.task_id = g.task_id
        Entry(r) == r.e
    IN  Map(SelectSeq(FetchedRows, Mine), Entry)

OfSeverity(es, severity) ==
    LET Has(e) == Severity(e.verdict) = severity
    IN  SelectSeq(es, Has)

DurationsOf(es) ==
    LET Ms(e) == e.duration_ms
    IN  Map(es, Ms)

\* C1: every entry whose duration d has d > 0 and (d // 1000) % 60 = 0 is a
\* FRAUD entry of the report, also when d < 300000: it is counted in
\* summary.fraud and not in summary.potential, no entry of another tier
\* precedes it in its group, and its group's status is fraud.
C1_ZeroSecondsIsFraud ==
    Reported =>
        LET zs == {i \in 1..Len(entries) : ZeroSecondsCondition(FetchedRows[i].e.duration_ms)}
        IN  /\ response.summary.fraud >= Cardinality(zs)
            /\ response.summary.potential <= Len(entries) - Cardinality(zs)
            /\ \A g \in 1..Len(response.tasks) :
                  LET es == response.tasks[g].entries
                  IN  /\ (\E j \in 1..Len(es) : ZeroSecondsCondition(es[j].duration_ms))
                          => response.tasks[g].status = "fraud"
                      /\ \A j, k \in 1..Len(es) :
                             (j < k /\ ZeroSecondsCondition(es[k].duration_ms))
                             => ZeroSecondsCondition(es[j].duration_ms)

\* C2: an entry whose duration d >= 0 does not meet the zero-seconds
\* condition has severity POTENTIAL_FRAUD if d < 300000 and CLEAN otherwise;
\* d = 0 is POTENTIAL_FRAUD.
C2_ShortOrClean ==
    Reported =>
        LET short == {i \in 1..Len(entries) :
                         /\ ~ZeroSecondsCondition(FetchedRows[i].e.duration_ms)
                         /\ FetchedRows[i].e.duration_ms < 300000}
            long == {i \in 1..Len(entries) :
                        /\ ~ZeroSecondsCondition(FetchedRows[i].e.duration_ms)
                        /\ FetchedRows[i].e.duration_ms >= 300000}
        IN  /\ \A g \in 1..Len(response.tasks) :
                  \A j \in 1..Len(response.tasks[g].entries) :
                      LET e == response.tasks[g].entries[j]
                      IN  ~ZeroSecondsCondition(e.duration_ms) =>
                              Severity(e.verdict) =
                                  IF e.duration_ms < 300000 THEN "POTENTIAL_FRAUD" ELSE "CLEAN"
            /\ response.summary.clean = Cardinality(long)
            /\ response.summary.potential >= Cardinality(short)
            /\ response.summary.fraud <= Len(entries) - Cardinality(short) - Cardinality(long)

C2_Witness ==
    /\ Reported
    /\ Len(entries) = 1
    /\ FetchedRows[1].e.duration_ms = 0
    /\ response.summary = [total |-> 1, fraud |-> 0, potential |-> 1, clean |-> 0]

RECURSIVE Sum(_)
Sum(ns) == IF Len(ns) = 0 THEN 0 ELSE Head(ns) + Sum(Tail(ns))

GroupSize(g) == Len(g.entries)

\* C3: in every report, summary.total = fraud + potential + clean, and
\* summary.total is the number of entries over all task groups: every
\* fetched entry is in exactly one counter and in exactly one group.
C3_SummaryAddsUp ==
    Reported =>
        /\ response.summary.total
               = response.summary.fraud + response.summary.potential + response.summary.clean
        /\ response.summary.total = Sum(Map(response.tasks, GroupSize))
        /\ response.summary.total = Len(entries)
        /\ \A i \in 1..Len(entries) :
               Count(ReportRows, FetchedRows[i]) = Count(FetchedRows, FetchedRows[i])

C3_Witness ==
    /\ Reported
    /\ Len(response.tasks) >= 2
    /\ response.summary.fraud >= 1
    /\ response.summary.potential >= 1
    /\ response.summary.clean >= 1

\* The team request does not yield a member: it failed, timed out, was
\* answered with a non-2xx status or a malformed payload, or the team is empty.
NoUsers == provider.team \notin {TeamOf(n) : n \in 1..MaxUsers}

\* C4: when the team-members fetch yields zero users, run_audit fails with a
\* 5xx error, returns no report and sends no time-entries request.
C4_NoUsersFails ==
    (NoUsers /\ pc \notin {"start", "await_users"}) =>
        /\ pc = "done"
        /\ response.status \in 500..599
        /\ DOMAIN response = {"status", "detail"}
        /\ \A r \in 1..Len(requests) : requests[r].op # "time_entries"

C4_Witness ==
    /\ pc = "done"
    /\ provider.team = Failure("timeout")
    /\ response = HTTPException(500, "Failed to fetch users")
    /\ requests = <<[op |-> "team"]>>

\* What the provider holds for the user at position i of the user list.
ProvidedFor(i) == provider.entries[users[i].id]

\* The fetch for the user at position i fails: error, timeout, non-2xx
\* status, or a payload that is not an object with a list under "data".
FetchFails(i) ==
    \/ ProvidedFor(i).kind \in FailureKinds
    \/ /\ ProvidedFor(i).kind = "ok"
       /\ \/ ProvidedFor(i).body.kind # "obj"
          \/ ProvidedFor(i).body.data.kind = "null"

ReturnedFor(i) ==
    IF FetchFails(i) \/ ProvidedFor(i).body.data.kind = "absent" THEN << >>
    ELSE ProvidedFor(i).body.data.v

\* No part of the entry is missing.
IsComplete(raw) ==
    /\ raw.user.kind = "obj"
    /\ raw.user.username.kind = "str"
    /\ raw.user.email.kind = "str"
    /\ raw.task.kind = "obj"
    /\ raw.task.name.kind = "str"
    /\ raw.task.id.kind = "str"
    /\ raw.duration.kind \in {"num", "str"}

\* C5: with a non-empty user list and any set of users whose fetch fails,
\* get_all_time_entries does not raise, its result is exactly the entries
\* returned for the other users, and run_audit returns a report.
C5_FailuresAreAbsorbed ==
    (pc = "done" /\ Len(users) > 0
        /\ \A i \in 1..Len(users) : \A j \in 1..Len(ReturnedFor(i)) : IsComplete(ReturnedFor(i)[j]))
    =>  /\ response.status = 200
        /\ entries = Flatten([i \in 1..Len(users) |-> ReturnedFor(i)])

\* The part, or the default when the key is absent or its value is null.
OrDefault(x, default) == IF x.kind \in {"absent", "null"} THEN default ELSE x

ExpectedRow(raw) ==
    LET user == OrDefault(raw.user, UserObj(Absent, Absent))
        task == OrDefault(raw.task, TaskObj(Absent, Absent))
        duration_ms == int(OrDefault(raw.duration, Num(0)))
    IN  [task_name |-> OrDefault(task.name, Str("No Task")).v,
         task_id |-> OrDefault(task.id, Str("N/A")).v,
         e |-> [user |-> OrDefault(user.username, Str("Unknown User")).v,
                email |-> OrDefault(user.email, Str("")).v,
                duration |-> ms_to_duration_str(duration_ms),
                duration_ms |-> duration_ms,
                verdict |-> get_verdict(duration_ms)]]

\* C6: an entry with a missing user, task or duration, or a missing
\* username, email, task name or task id, the key absent or its value null,
\* does not abort run_audit: the report holds it with the defaults in place
\* of the missing parts, next to all other entries.
C6_DefectsAreDefaulted ==
    (pc = "done" /\ Len(users) > 0 /\ ~extend_raises(results)) =>
        /\ response.status = 200
        /\ Len(ReportRows) = Len(entries)
        /\ \A i \in 1..Len(entries) :
               Count(ReportRows, ExpectedRow(entries[i]))
                   = Count(Map(entries, ExpectedRow), ExpectedRow(entries[i]))

ReportedSeverities(g) ==
    {Severity(g.entries[j].verdict) : j \in 1..Len(g.entries)}

\* C7: a task group's status is the most severe of its entries' severities,
\* the severity of an entry being the one the summary counts it under.
C7_StatusIsMostSevere ==
    Reported =>
        /\ \A k \in 1..Len(response.tasks) :
              LET g == response.tasks[k]
              IN  /\ g.status = "fraud" <=> "FRAUD" \in ReportedSeverities(g)
                  /\ g.status = "potential" <=>
                         ("FRAUD" \notin ReportedSeverities(g)
                          /\ "POTENTIAL_FRAUD" \in ReportedSeverities(g))
                  /\ g.status = "clean" <=> ReportedSeverities(g) = {"CLEAN"}
        /\ response.summary.fraud = Len(OfSeverity(Map(ReportRows, LAMBDA r : r.e), "FRAUD"))
        /\ response.summary.potential
               = Len(OfSeverity(Map(ReportRows, LAMBDA r : r.e), "POTENTIAL_FRAUD"))
        /\ response.summary.clean = Len(OfSeverity(Map(ReportRows, LAMBDA r : r.e), "CLEAN"))

C7_Witness ==
    /\ Reported
    /\ \E k \in 1..Len(response.tasks) :
          /\ response.tasks[k].status = "fraud"
          /\ ReportedSeverities(response.tasks[k]) = {"FRAUD", "POTENTIAL_FRAUD", "CLEAN"}

\* The position in the fetched entries of the first entry of group g.
FirstSeen(g) ==
    CHOOSE i \in 1..Len(entries) :
        /\ FetchedRows[i].task_name = g.task_name /\ FetchedRows[i].task_id = g.task_id
        /\ \A j \in 1..(i - 1) :
               ~(FetchedRows[j].task_name = g.task_name /\ FetchedRows[j].task_id = g.task_id)

GroupKey(g) == <<g.task_name, g.task_id>>

\* C8: the report has one group per distinct (task name, task id); fraud
\* groups come first, then potential, then clean; groups of one status are in
\* the order in which their first entry was fetched; sorting the report's
\* groups again leaves them as they are.
C8_GroupsByTierThenEncounter ==
    Reported =>
        LET tasks == response.tasks
        IN  /\ {GroupKey(tasks[k]) : k \in 1..Len(tasks)}
                   = {<<FetchedRows[i].task_name, FetchedRows[i].task_id>> : i \in 1..Len(entries)}
            /\ \A k, l \in 1..Len(tasks) :
                  k < l =>
                      /\ GroupKey(tasks[k]) # GroupKey(tasks[l])
                      /\ Tier(tasks[k].status) <= Tier(tasks[l].status)
                      /\ tasks[k].status = tasks[l].status
                             => FirstSeen(tasks[k]) < FirstSeen(tasks[l])
            /\ sort_tasks(tasks) = tasks

C8_Witness ==
    /\ Reported
    /\ Len(response.tasks) = 3
    /\ response.tasks[1].status = "fraud"
    /\ response.tasks[2].status = "potential"
    /\ response.tasks[3].status = "potential"
    /\ FirstSeen(response.tasks[1]) = 3
    /\ FirstSeen(response.tasks[2]) = 1

\* C9: in every group the FRAUD entries come first, then the
\* POTENTIAL_FRAUD entries, then the CLEAN ones, each tier in fetched order;
\* one task with durations 600000, 120000, 3600000 has status fraud and the
\* 600000 and 3600000 entries before the 120000 entry.
C9_EntriesByTierThenFetched ==
    Reported =>
        \A k \in 1..Len(response.tasks) :
            LET g == response.tasks[k]
            IN  /\ g.entries = OfSeverity(FetchedOf(g), "FRAUD")
                                   \o OfSeverity(FetchedOf(g), "POTENTIAL_FRAUD")
                                   \o OfSeverity(FetchedOf(g), "CLEAN")
                /\ DurationsOf(FetchedOf(g)) = <<600000, 120000, 3600000>>
                       => /\ g.status = "fraud"
                          /\ DurationsOf(g.entries) = <<600000, 3600000, 120000>>

C9_Witness ==
    /\ Reported
    /\ Len(response.tasks) = 1
    /\ DurationsOf(FetchedOf(response.tasks[1])) = <<600000, 120000, 3600000>>
    /\ DurationsOf(response.tasks[1].entries) = <<600000, 3600000, 120000>>

\* What the fetch for the user at position i returns, whenever it returns.
ReturnValueFor(i) == get_time_entries_for_user(ProvidedFor(i))

\* C10: the order in which the fetches return does not show: each fetch fills
\* its own slot and no other, the entries are the users' entries in user-list
\* order, and the response is the one built from them.
C10_CompletionOrderDoesNotShow ==
    /\ pc = "await_entries" =>
           \A i \in 1..Len(users) :
               results[i] = IF i \in running THEN Pending ELSE ReturnValueFor(i)
    /\ (pc = "done" /\ Len(users) > 0) =>
           /\ results = [i \in 1..Len(users) |-> ReturnValueFor(i)]
           /\ IF \E i \in 1..Len(users) : ReturnValueFor(i).kind # "list"
              THEN response = InternalServerError
              ELSE /\ entries = Flatten([i \in 1..Len(users) |-> ReturnValueFor(i).v])
                   /\ response = build_response(Flatten([i \in 1..Len(users) |-> ReturnValueFor(i).v]))

\* The second user's fetch has returned entries and the first user's has not.
C10_Witness ==
    /\ pc = "await_entries"
    /\ Len(users) >= 2
    /\ 1 \in running
    /\ 2 \notin running
    /\ results[2].kind = "list"
    /\ Len(results[2].v) > 0
    /\ ReturnValueFor(1).kind = "list"
    /\ Len(ReturnValueFor(1).v) > 0

====
